---- MODULE Spec2Model ----
(***************************************************************************)
(* A model of gdb/sslkeylog.py: the breakpoint-driven extraction of TLS    *)
(* key material from a debugged process and the deduplicating key log.     *)
(*                                                                         *)
(* Python values are modelled as follows.  None is the empty tuple; a      *)
(* reference to a Python object (a Keylog, a gdb.Breakpoint) is a 1-tuple  *)
(* <<n>> holding the object's number; a str is a TLA+ string; a file is    *)
(* the sequence of the chunks written to it (every write of the program    *)
(* is one whole line).                                                     *)
(***************************************************************************)
EXTENDS Integers, Sequences, FiniteSets, Bags, TLC

None == <<>>

Ref(n) == <<n>>

(***************************************************************************)
(* Bounds of the model.                                                    *)
(***************************************************************************)
\* in-flight calls of the target into the instrumented functions
MaxFrames == 2
\* rounds of breakpoint creation by enable() within one gdb session
MaxInstalls == 2

(***************************************************************************)
(* Program constants.                                                      *)
(***************************************************************************)
_SSL_KEYLOG_HEADER == "# Automatically generated by sslkeylog.py\n"

\* bytes read from session->master_key
MASTER_KEY_SIZE == 48

\* bytes read from s3->client_random
CLIENT_RANDOM_SIZE == 32

\* the keys of _locations
Symbols == {"SSL_connect", "SSL_do_handshake", "SSL_accept", "SSL_read", "SSL_write"}

\* getenv('SSLKEYLOGFILE', 'keys.log') with the variable unset
DefaultPath == "keys.log"

\* the paths keylog_filename takes in the model: the log file is one path,
\* which a start() argument names again
Paths == {DefaultPath}

(***************************************************************************)
(* The target's memory: SSL objects, addressed by the SSL* value passed as *)
(* the parameter `s' of the instrumented functions.                        *)
(***************************************************************************)
Handles == {"sslA", "sslB"}

ByteVals == {171, 12}

\* ssl_ptr['session'] (a pointer, 0 = NULL), session['master_key_length'],
\* session['master_key'], ssl_ptr['s3'] (a pointer) and s3['client_random'].
\* An array field holds the byte that fills every cell of the array.
SslStates ==
    [session : {0, 1},
     master_key_length : {-1, 0, MASTER_KEY_SIZE},
     master_key : ByteVals,
     s3 : {0, 1},
     client_random : ByteVals]

HexDigits == <<"0", "1", "2", "3", "4", "5", "6", "7",
               "8", "9", "A", "B", "C", "D", "E", "F">>

\* '%02x' in place of '%02X': lowercase digits
Hex02X_Lowercase(b) ==
    LET digits == <<"0", "1", "2", "3", "4", "5", "6", "7",
                    "8", "9", "a", "b", "c", "d", "e", "f">>
    IN  digits[(b \div 16) + 1] \o digits[(b % 16) + 1]

\* '%02X' % ord(x)
Hex02X(b) == HexDigits[(b \div 16) + 1] \o HexDigits[(b % 16) + 1]

\* ''.join('%02X' % ord(x) for x in data), from the i-th byte on
RECURSIVE JoinHexFrom(_, _)
JoinHexFrom(data, i) ==
    IF i > Len(data) THEN "" ELSE Hex02X(data[i]) \o JoinHexFrom(data, i + 1)

JoinHex(data) == JoinHexFrom(data, 1)

\* gdb.selected_inferior().read_memory(addr, size): the size bytes at the
\* address of an array field
read_memory(value, size) == [i \in 1..size |-> value]

\* _read_as_hex, tabulated once over the arrays and sizes of the model
HexTable ==
    [value \in ByteVals, size \in {MASTER_KEY_SIZE, CLIENT_RANDOM_SIZE} |->
        JoinHex(read_memory(value, size))]

_read_as_hex(value, size) == HexTable[value, size]

\* returns <<hex>> for a str result, None otherwise
_ssl_get_master_key(ssl) ==
    IF ssl.session # 0 /\ ssl.master_key_length > 0
    THEN <<_read_as_hex(ssl.master_key, MASTER_KEY_SIZE)>>
    ELSE None

\* get_keylog_line without the test `s3 == 0'
get_keylog_line_NoS3Check(ssl) ==
    LET mk == _ssl_get_master_key(ssl)
    IN  IF mk = None
        THEN None
        ELSE <<_read_as_hex(ssl.client_random, CLIENT_RANDOM_SIZE), mk[1]>>

\* returns <<cr, mk>> or None
get_keylog_line(ssl) ==
    LET mk == _ssl_get_master_key(ssl)
    IN  IF ssl.s3 = 0 \/ mk = None
        THEN None
        ELSE <<_read_as_hex(ssl.client_random, CLIENT_RANDOM_SIZE), mk[1]>>

\* 'CLIENT_RANDOM %s %s\n' % (client_random, master_key)
KeyLine(client_random, master_key) ==
    "CLIENT_RANDOM " \o client_random \o " " \o master_key \o "\n"

(***************************************************************************)
(* State.                                                                  *)
(***************************************************************************)
VARIABLES
    mem,              \* target memory: SSL* value -> SSL object
    fs,               \* the file system: path -> [kind, data]
    keylog_filename,  \* module global keylog_filename
    _keylog_file,     \* module global _keylog_file: None or a Keylog reference
    _locations,       \* module global _locations: symbol -> None or a breakpoint reference
    keylogs,          \* the Keylog objects of this gdb session, by number
    breakpoints,      \* gdb's table of user breakpoints (SKLBreakpoint objects)
    breakpoint_count, \* gdb's counter of breakpoint numbers
    frames,           \* the target's calls in flight, each with its finish breakpoint
    inferior,         \* "none" (no process), "stopped" (gdb has control) or "running"
    raised,           \* the exception the module's code last ended with, "" if it returned
    printed,          \* the lines the module printed since the inferior last stopped or resumed
    info              \* the value get_keylog_line returned last (`info' of the last
                      \* SKLFinishBreakpoint.stop), None before

vars == <<mem, fs, keylog_filename, _keylog_file, _locations, keylogs, breakpoints,
          breakpoint_count, frames, inferior, raised, printed, info>>

toolVars == <<keylog_filename, _keylog_file, _locations, keylogs, breakpoints,
              breakpoint_count>>

SymbolSeq == <<"SSL_connect", "SSL_do_handshake", "SSL_accept", "SSL_read", "SSL_write">>

(***************************************************************************)
(* Files.  A "regular" file is seekable, a "pipe" is not (stderr, a fifo), *)
(* a "denied" path cannot be opened at all.                                *)
(***************************************************************************)
RECURSIVE FileSize(_)
FileSize(data) == IF data = <<>> THEN 0 ELSE Len(Head(data)) + FileSize(Tail(data))

\* open(filename, mode, 0): [exc, fs, f].  espipe: this gdb's Python seeks on
\* append and fails on a pipe.
open(fsys, filename, mode, espipe) ==
    IF fsys[filename].kind = "denied"
    THEN [exc |-> "EACCES", fs |-> fsys, f |-> None]
    ELSE IF mode = "ab" /\ fsys[filename].kind = "pipe" /\ espipe
    THEN [exc |-> "ESPIPE", fs |-> fsys, f |-> None]
    ELSE [exc |-> "",
          fs  |-> IF mode = "wb" /\ fsys[filename].kind = "regular"
                  THEN [fsys EXCEPT ![filename].data = <<>>]
                  ELSE fsys,
          f   |-> [path |-> filename, mode |-> mode, closed |-> FALSE]]

\* f.tell() right after open: <<position>>, or None when it raises
tell(fsys, f) ==
    IF fsys[f.path].kind = "pipe" THEN None
    ELSE IF f.mode = "ab" THEN <<FileSize(fsys[f.path].data)>>
    ELSE <<0>>

\* f.write(chunk): [exc, fs].  io_ok: the operating system accepts the write.
write(fsys, f, chunk, io_ok) ==
    IF f.closed THEN [exc |-> "ValueError", fs |-> fsys]
    ELSE IF ~io_ok THEN [exc |-> "IOError", fs |-> fsys]
    ELSE [exc |-> "", fs |-> [fsys EXCEPT ![f.path].data = Append(@, chunk)]]

(***************************************************************************)
(* class Keylog                                                            *)
(***************************************************************************)
Keylog(keylog_file) == [keylog_file |-> keylog_file, written_items |-> {}]

\* needs_header answering True without the probe
needs_header_Always(fsys, f) == TRUE

needs_header(fsys, f) ==
    LET pos == tell(fsys, f) IN IF pos = None THEN FALSE ELSE pos[1] = 0

\* Keylog.create(filename): [exc, fs, obj]
Keylog_create(fsys, filename, espipe, io_ok) ==
    LET a == open(fsys, filename, "ab", espipe)
        o == IF a.exc = "ESPIPE" THEN open(fsys, filename, "wb", espipe) ELSE a
    IN  IF o.exc # ""
        THEN [exc |-> "OSError", fs |-> o.fs, obj |-> None]
        ELSE IF needs_header(o.fs, o.f)
        THEN LET w == write(o.fs, o.f, _SSL_KEYLOG_HEADER, io_ok)
             IN  IF w.exc # ""
                 THEN [exc |-> w.exc, fs |-> w.fs, obj |-> None]
                 ELSE [exc |-> "", fs |-> w.fs, obj |-> Keylog(o.f)]
        ELSE [exc |-> "", fs |-> o.fs, obj |-> Keylog(o.f)]

\* Keylog.notify without the test `client_random not in self.written_items'
Keylog_notify_NoCheck(fsys, self, client_random, master_key, io_ok) ==
    LET line == KeyLine(client_random, master_key)
        w == write(fsys, self.keylog_file, line, io_ok)
    IN  IF w.exc # ""
        THEN [exc |-> w.exc, fs |-> w.fs, self |-> self]
        ELSE [exc |-> "", fs |-> w.fs,
              self |-> [self EXCEPT !.written_items = @ \cup {client_random}]]

\* Keylog.notify recording the master key as the cache key
Keylog_notify_WrongCacheKey(fsys, self, client_random, master_key, io_ok) ==
    IF client_random \notin self.written_items
    THEN LET line == KeyLine(client_random, master_key)
             w == write(fsys, self.keylog_file, line, io_ok)
         IN  IF w.exc # ""
             THEN [exc |-> w.exc, fs |-> w.fs, self |-> self]
             ELSE [exc |-> "", fs |-> w.fs,
                   self |-> [self EXCEPT !.written_items = @ \cup {master_key}]]
    ELSE [exc |-> "", fs |-> fsys, self |-> self]

\* Keylog.notify recording the fingerprint before it writes the line
Keylog_notify_RecordFirst(fsys, self, client_random, master_key, io_ok) ==
    IF client_random \notin self.written_items
    THEN LET line == KeyLine(client_random, master_key)
             recorded == [self EXCEPT !.written_items = @ \cup {client_random}]
             w == write(fsys, recorded.keylog_file, line, io_ok)
         IN  [exc |-> w.exc, fs |-> w.fs, self |-> recorded]
    ELSE [exc |-> "", fs |-> fsys, self |-> self]

\* Keylog.notify deduplicating on the whole line: the line is the cache key
\* (the client random is recorded with it)
Keylog_notify_KeyedOnLine(fsys, self, client_random, master_key, io_ok) ==
    LET line == KeyLine(client_random, master_key)
    IN  IF line \notin self.written_items
        THEN LET w == write(fsys, self.keylog_file, line, io_ok)
             IN  IF w.exc # ""
                 THEN [exc |-> w.exc, fs |-> w.fs, self |-> self]
                 ELSE [exc |-> "", fs |-> w.fs,
                       self |-> [self EXCEPT !.written_items =
                                                 @ \cup {client_random, line}]]
        ELSE [exc |-> "", fs |-> fsys, self |-> self]

\* Keylog.notify(self, client_random, master_key): [exc, fs, self]
Keylog_notify(fsys, self, client_random, master_key, io_ok) ==
    IF client_random \notin self.written_items
    THEN LET line == KeyLine(client_random, master_key)
             w == write(fsys, self.keylog_file, line, io_ok)
         IN  IF w.exc # ""
             THEN [exc |-> w.exc, fs |-> w.fs, self |-> self]
             ELSE [exc |-> "", fs |-> w.fs,
                   self |-> [self EXCEPT !.written_items = @ \cup {client_random}]]
    ELSE [exc |-> "", fs |-> fsys, self |-> self]

\* Keylog.close is declared without `self': calling it on an instance passes
\* one positional argument to a function taking none, so the call raises
\* TypeError before the body runs.
Keylog_close(self) == [exc |-> "TypeError", self |-> self]

\* 'Logged %d entries in total' % written_items: %d applied to a set
FormatLogged(written_items) == "TypeError"

(***************************************************************************)
(* enable() and disable(), as functions of the globals they read.          *)
(***************************************************************************)
\* the symbols whose _locations entry is None, in iteration order
RECURSIVE Unwatched(_, _)
Unwatched(locs, names) ==
    IF names = <<>> THEN <<>>
    ELSE IF locs[Head(names)] = None
         THEN <<Head(names)>> \o Unwatched(locs, Tail(names))
         ELSE Unwatched(locs, Tail(names))

IndexOf(seq, x) == CHOOSE i \in 1..Len(seq) : seq[i] = x

\* SKLBreakpoint(spec, key_listener), numbered by gdb
SKLBreakpoint(number, spec, key_listener) ==
    [number |-> number, spec |-> spec, key_listener |-> key_listener]

\* a printed line: the format of the print statement and the name it is
\* about (breakpoint numbers and hit counts are not held)
Line(fmt, arg) == [fmt |-> fmt, arg |-> arg]

\* one line for each of names whose entry is set (want) or is None (~want)
RECURSIVE LinesAbout(_, _, _, _)
LinesAbout(fmt, locs, names, want) ==
    IF names = <<>> THEN <<>>
    ELSE IF (locs[Head(names)] # None) = want
         THEN <<Line(fmt, Head(names))>> \o LinesAbout(fmt, locs, Tail(names), want)
         ELSE LinesAbout(fmt, locs, Tail(names), want)

\* the loop of enable() without the test `if breakpoint: ... continue'
InstallLoop_NoSkip(locs, bps, count, listener) ==
    [printed |-> <<>>,
     _locations |-> [name \in Symbols |-> Ref(count + IndexOf(SymbolSeq, name))],
     breakpoints |-> bps \cup {SKLBreakpoint(count + i, SymbolSeq[i], listener) :
                                  i \in 1..Len(SymbolSeq)},
     breakpoint_count |-> count + Len(SymbolSeq)]

\* the loop of enable(): lines 210-214
InstallLoop(locs, bps, count, listener) ==
    LET new == Unwatched(locs, SymbolSeq)
    IN  [printed |-> LinesAbout("Breakpoint for %s is already active, ignoring",
                                locs, SymbolSeq, TRUE),
         _locations |-> [name \in Symbols |->
                            IF locs[name] = None
                            THEN Ref(count + IndexOf(new, name))
                            ELSE locs[name]],
         breakpoints |-> bps \cup {SKLBreakpoint(count + i, new[i], listener) :
                                      i \in 1..Len(new)},
         breakpoint_count |-> count + Len(new)]

\* enable(): the values of the globals after the call, and the exception
EnableOutcome(filename, espipe, io_ok) ==
    LET c == Keylog_create(fs, filename, espipe, io_ok)
    IN  IF _keylog_file = None /\ c.exc # ""
        THEN [exc |-> c.exc, printed |-> <<>>, fs |-> c.fs, keylogs |-> keylogs,
              _keylog_file |-> _keylog_file, _locations |-> _locations,
              breakpoints |-> breakpoints, breakpoint_count |-> breakpoint_count]
        ELSE LET created == (_keylog_file = None)
                 kls == IF created THEN Append(keylogs, c.obj) ELSE keylogs
                 kf  == IF created THEN Ref(Len(kls)) ELSE _keylog_file
                 l   == InstallLoop(_locations, breakpoints, breakpoint_count, kf)
                 started == IF created
                            THEN <<Line("Started logging SSL keys to %s", filename)>>
                            ELSE <<>>
             IN  [exc |-> "", printed |-> started \o l.printed,
                  fs |-> IF created THEN c.fs ELSE fs, keylogs |-> kls,
                  _keylog_file |-> kf, _locations |-> l._locations,
                  breakpoints |-> l.breakpoints,
                  breakpoint_count |-> l.breakpoint_count]

\* disable() without breakpoint.delete()
DisableOutcome_NoDelete(locs, bps) ==
    [printed |-> LinesAbout("Deleting breakpoint %d (%s)", locs, SymbolSeq, TRUE),
     _locations |-> [name \in Symbols |-> None],
     breakpoints |-> bps]

\* disable(): breakpoint.delete() for every entry that is set, then None
DisableOutcome(locs, bps) ==
    [printed |-> LinesAbout("Deleting breakpoint %d (%s)", locs, SymbolSeq, TRUE),
     _locations |-> [name \in Symbols |-> None],
     breakpoints |-> {b \in bps : \A name \in Symbols : locs[name] # Ref(b.number)}]

\* room for the breakpoint numbers one more enable() hands out
CanInstall ==
    breakpoint_count + Len(Unwatched(_locations, SymbolSeq))
        <= MaxInstalls * Cardinality(Symbols)

\* the outcomes of the operating system that enable() can meet: they matter
\* only when it creates the Keylog
IoOutcomes == IF _keylog_file = None THEN BOOLEAN ELSE {TRUE}

(***************************************************************************)
(* The commands of the control surface.  gdb runs them while it has        *)
(* control, that is while the inferior is not running.                     *)
(***************************************************************************)
enable ==
    /\ inferior # "running"
    /\ CanInstall
    /\ \E espipe \in IoOutcomes, io_ok \in IoOutcomes :
          LET e == EnableOutcome(keylog_filename, espipe, io_ok)
          IN  /\ raised' = e.exc
              /\ printed' = e.printed
              /\ fs' = e.fs
              /\ keylogs' = e.keylogs
              /\ _keylog_file' = e._keylog_file
              /\ _locations' = e._locations
              /\ breakpoints' = e.breakpoints
              /\ breakpoint_count' = e.breakpoint_count
    /\ UNCHANGED <<mem, keylog_filename, frames, inferior, info>>

\* disable() deleting the finish breakpoints of the calls in flight as well
disable_DeletesFinish ==
    /\ inferior # "running"
    /\ LET d == DisableOutcome(_locations, breakpoints)
           entered == {s \in Handles : \E fr \in BagToSet(frames) : fr.s = s}
       IN  /\ _locations' = d._locations
           /\ breakpoints' = d.breakpoints
           /\ printed' = d.printed
           /\ frames' = [fr \in {[s |-> s, fbp |-> None] : s \in entered} |->
                            BagCardinality([g \in {f \in BagToSet(frames) : f.s = fr.s}
                                               |-> frames[g]])]
    /\ raised' = ""
    /\ UNCHANGED <<mem, fs, keylog_filename, _keylog_file, keylogs, breakpoint_count,
                   inferior, info>>

disable ==
    /\ inferior # "running"
    /\ LET d == DisableOutcome(_locations, breakpoints)
       IN  /\ _locations' = d._locations
           /\ breakpoints' = d.breakpoints
           /\ printed' = d.printed
    /\ raised' = ""
    /\ UNCHANGED <<mem, fs, keylog_filename, _keylog_file, keylogs, breakpoint_count,
                   frames, inferior, info>>

\* start() going on to gdb.execute('continue') although enable() raised
start_ContinueAnyway(sslkeylogfile, cont) ==
    /\ inferior # "running"
    /\ CanInstall
    /\ keylog_filename' = IF sslkeylogfile # None THEN sslkeylogfile[1]
                          ELSE keylog_filename
    /\ \E espipe \in IoOutcomes, io_ok \in IoOutcomes :
          LET e == EnableOutcome(keylog_filename', espipe, io_ok)
          IN  /\ raised' = e.exc
              /\ printed' = e.printed
              /\ fs' = e.fs
              /\ keylogs' = e.keylogs
              /\ _keylog_file' = e._keylog_file
              /\ _locations' = e._locations
              /\ breakpoints' = e.breakpoints
              /\ breakpoint_count' = e.breakpoint_count
              /\ inferior' = IF cont /\ inferior = "stopped"
                             THEN "running" ELSE inferior
    /\ UNCHANGED <<mem, frames, info>>

\* start(sslkeylogfile, cont)
start(sslkeylogfile, cont) ==
    /\ inferior # "running"
    /\ CanInstall
    /\ keylog_filename' = IF sslkeylogfile # None THEN sslkeylogfile[1]
                          ELSE keylog_filename
    /\ \E espipe \in IoOutcomes, io_ok \in IoOutcomes :
          LET e == EnableOutcome(keylog_filename', espipe, io_ok)
          IN  /\ raised' = e.exc
              /\ printed' = e.printed
              /\ fs' = e.fs
              /\ keylogs' = e.keylogs
              /\ _keylog_file' = e._keylog_file
              /\ _locations' = e._locations
              /\ breakpoints' = e.breakpoints
              /\ breakpoint_count' = e.breakpoint_count
              \* gdb.execute('continue') when a thread is selected
              /\ inferior' = IF e.exc = "" /\ cont /\ inferior = "stopped"
                             THEN "running" ELSE inferior
    /\ UNCHANGED <<mem, frames, info>>

\* stop() with a close() that works and without the call of disable(): the
\* reference is cleared and the entry watchers stay
stop_WithoutDisable ==
    /\ inferior # "running"
    /\ IF _keylog_file = None
       THEN /\ raised' = ""
            /\ printed' = <<Line("No active keylog session", "")>>
            /\ UNCHANGED <<keylogs, _keylog_file>>
       ELSE /\ raised' = ""
            /\ printed' = <<Line("Logged %d entries in total", "")>>
            /\ keylogs' = [keylogs EXCEPT ![_keylog_file[1]].keylog_file.closed = TRUE]
            /\ _keylog_file' = None
    /\ UNCHANGED <<mem, fs, keylog_filename, _locations, breakpoints, breakpoint_count,
                   frames, inferior, info>>

\* stop() without the early return of lines 186-188: with no Keylog it goes on
\* to disable() and to _keylog_file.close(), an attribute lookup on None
stop_NoEarlyReturn ==
    /\ inferior # "running"
    /\ LET d == DisableOutcome(_locations, breakpoints)
           first == IF _keylog_file = None
                    THEN <<Line("No active keylog session", "")>> ELSE <<>>
       IN  /\ printed' = first \o d.printed
           /\ _locations' = d._locations
           /\ breakpoints' = d.breakpoints
           /\ raised' = IF _keylog_file = None THEN "AttributeError" ELSE "TypeError"
    /\ UNCHANGED <<mem, fs, keylog_filename, _keylog_file, keylogs, breakpoint_count,
                   frames, inferior, info>>

stop ==
    /\ inferior # "running"
    /\ IF _keylog_file = None
       THEN /\ raised' = ""
            /\ printed' = <<Line("No active keylog session", "")>>
            /\ UNCHANGED <<_locations, breakpoints, keylogs, _keylog_file>>
       ELSE LET d == DisableOutcome(_locations, breakpoints)
                k == _keylog_file[1]
                c == Keylog_close(keylogs[k])
                p == IF c.exc # "" THEN c.exc ELSE FormatLogged(c.self.written_items)
            IN  /\ printed' = d.printed
                /\ _locations' = d._locations
                /\ breakpoints' = d.breakpoints
                /\ keylogs' = [keylogs EXCEPT ![k] = c.self]
                /\ raised' = p
                /\ _keylog_file' = IF p = "" THEN None ELSE _keylog_file
    /\ UNCHANGED <<mem, fs, keylog_filename, breakpoint_count, frames, inferior,
                   info>>

(***************************************************************************)
(* The breakpoint callbacks.                                               *)
(***************************************************************************)
\* SKLFinishBreakpoint(ssl_ptr, key_listener)
SKLFinishBreakpoint(ssl_ptr, key_listener) ==
    [ssl_ptr |-> ssl_ptr, key_listener |-> key_listener]

\* SKLBreakpoint.stop handing the finish breakpoint another connection's SSL*
SKLBreakpoint_stop_OtherHandle(self, s) ==
    LET ssl_ptr == CHOOSE h \in Handles : h # s
    IN  [stop |-> FALSE, fbp |-> <<SKLFinishBreakpoint(ssl_ptr, self.key_listener)>>]

\* SKLBreakpoint.stop(self) in a frame whose parameter `s' is s:
\* [stop, fbp].  ignore_count is raised by one here and lowered by one by gdb
\* when execution continues, so it is left as it was.
SKLBreakpoint_stop(self, s) ==
    LET ssl_ptr == s
    IN  [stop |-> FALSE, fbp |-> <<SKLFinishBreakpoint(ssl_ptr, self.key_listener)>>]

\* SKLFinishBreakpoint.stop ending with `return True'
SKLFinishBreakpoint_stop_ReturnsTrue(self, io_ok) ==
    LET got == get_keylog_line(mem[self.ssl_ptr])
        k == self.key_listener[1]
    IN  IF got # None
        THEN LET n == Keylog_notify(fs, keylogs[k], got[1], got[2], io_ok)
             IN  [stop |-> TRUE, exc |-> n.exc, fs |-> n.fs,
                  keylogs |-> [keylogs EXCEPT ![k] = n.self], info |-> got]
        ELSE [stop |-> TRUE, exc |-> "", fs |-> fs, keylogs |-> keylogs,
              info |-> got]

\* SKLFinishBreakpoint.stop(self): [stop, exc, fs, keylogs, info].  An exception
\* leaving the callback is printed by gdb, which then stops the inferior.
SKLFinishBreakpoint_stop(self, io_ok) ==
    LET got == get_keylog_line(mem[self.ssl_ptr])
        k == self.key_listener[1]
    IN  IF got # None
        THEN LET n == Keylog_notify(fs, keylogs[k], got[1], got[2], io_ok)
             IN  [stop |-> n.exc # "", exc |-> n.exc, fs |-> n.fs,
                  keylogs |-> [keylogs EXCEPT ![k] = n.self], info |-> got]
        ELSE [stop |-> FALSE, exc |-> "", fs |-> fs, keylogs |-> keylogs,
              info |-> got]

(***************************************************************************)
(* The target and the user of gdb.                                         *)
(***************************************************************************)
Frame(s, fbp) == [s |-> s, fbp |-> fbp]

\* entry watchers created as temporary breakpoints: gdb deletes the one that
\* is hit
TargetCall_Temporary(sym, s) ==
    /\ inferior = "running"
    /\ BagCardinality(frames) < MaxFrames
    /\ LET hit == {b \in breakpoints : b.spec = sym}
       IN  IF hit = {}
           THEN /\ frames' = frames (+) SetToBag({Frame(s, None)})
                /\ UNCHANGED <<inferior, raised, printed, breakpoints>>
           ELSE LET r == SKLBreakpoint_stop(CHOOSE b \in hit : TRUE, s)
                IN  /\ frames' = frames (+) SetToBag({Frame(s, r.fbp)})
                    /\ inferior' = IF r.stop THEN "stopped" ELSE "running"
                    /\ raised' = ""
                    /\ printed' = <<>>
                    /\ breakpoints' = breakpoints \ hit
    /\ UNCHANGED <<mem, fs, keylog_filename, _keylog_file, _locations, keylogs,
                   breakpoint_count, info>>

\* the target calls function sym with the SSL* argument s
TargetCall(sym, s) ==
    /\ inferior = "running"
    /\ BagCardinality(frames) < MaxFrames
    /\ LET hit == {b \in breakpoints : b.spec = sym}
       IN  IF hit = {}
           THEN /\ frames' = frames (+) SetToBag({Frame(s, None)})
                /\ UNCHANGED <<inferior, raised, printed>>
           ELSE LET r == SKLBreakpoint_stop(CHOOSE b \in hit : TRUE, s)
                IN  /\ frames' = frames (+) SetToBag({Frame(s, r.fbp)})
                    /\ inferior' = IF r.stop THEN "stopped" ELSE "running"
                    /\ raised' = ""
                    /\ printed' = <<>>
    /\ UNCHANGED <<mem, fs, toolVars, info>>

\* a finish breakpoint that gdb keeps after it has fired: the callback runs
\* and the watcher stays armed
TargetReturn_NotOneShot(fr) ==
    /\ inferior = "running"
    /\ BagIn(fr, frames)
    /\ IF fr.fbp = None
       THEN /\ frames' = frames (-) SetToBag({fr})
            /\ UNCHANGED <<fs, keylogs, inferior, raised, printed, info>>
       ELSE /\ frames' = frames
            /\ \E io_ok \in BOOLEAN :
                  LET r == SKLFinishBreakpoint_stop(fr.fbp[1], io_ok)
                  IN  /\ fs' = r.fs
                      /\ keylogs' = r.keylogs
                      /\ inferior' = IF r.stop THEN "stopped" ELSE "running"
                      /\ raised' = r.exc
                      /\ printed' = <<>>
                      /\ info' = r.info
    /\ UNCHANGED <<mem, keylog_filename, _keylog_file, _locations, breakpoints,
                   breakpoint_count>>

\* a call in flight returns; its finish breakpoint, if any, fires and is gone
TargetReturn(fr) ==
    /\ inferior = "running"
    /\ BagIn(fr, frames)
    /\ frames' = frames (-) SetToBag({fr})
    /\ IF fr.fbp = None
       THEN UNCHANGED <<fs, keylogs, inferior, raised, printed, info>>
       ELSE \E io_ok \in BOOLEAN :
               LET r == SKLFinishBreakpoint_stop(fr.fbp[1], io_ok)
               IN  /\ fs' = r.fs
                   /\ keylogs' = r.keylogs
                   /\ inferior' = IF r.stop THEN "stopped" ELSE "running"
                   /\ raised' = r.exc
                   /\ printed' = <<>>
                   /\ info' = r.info
    /\ UNCHANGED <<mem, keylog_filename, _keylog_file, _locations, breakpoints,
                   breakpoint_count>>

\* gdb's `run', `continue' and an interrupt of the running inferior: no code
\* of the module runs
TargetRun ==
    /\ inferior = "none"
    /\ inferior' = "running"
    /\ printed' = <<>>
    /\ UNCHANGED <<mem, fs, toolVars, frames, raised, info>>

TargetContinue ==
    /\ inferior = "stopped"
    /\ inferior' = "running"
    /\ printed' = <<>>
    /\ UNCHANGED <<mem, fs, toolVars, frames, raised, info>>

TargetInterrupt ==
    /\ inferior = "running"
    /\ inferior' = "stopped"
    /\ printed' = <<>>
    /\ UNCHANGED <<mem, fs, toolVars, frames, raised, info>>

(***************************************************************************)
(* The specification of the tool attached to a target.                     *)
(***************************************************************************)
\* an SSL object whose handshake is done
Established(cr, mk) ==
    [session |-> 1, master_key_length |-> MASTER_KEY_SIZE,
     master_key |-> mk, s3 |-> 1, client_random |-> cr]

\* an SSL object before its handshake: no session yet
Fresh ==
    [session |-> 0, master_key_length |-> 0, master_key |-> 12, s3 |-> 1,
     client_random |-> 12]

\* the memory images of the target: one connection established, the other
\* fresh or established with the same or another client random and key
TargetMemories ==
    {[h \in Handles |-> IF h = "sslA" THEN Established(171, 171) ELSE b] :
        b \in {Fresh} \cup {Established(cr, mk) : cr \in ByteVals, mk \in ByteVals}}

\* what the log path can be when gdb starts: a new file, the log an earlier
\* gdb session left, a pipe, a path that cannot be opened
InitFiles ==
    {[kind |-> "regular", data |-> <<>>],
     [kind |-> "regular",
      data |-> <<_SSL_KEYLOG_HEADER,
                 KeyLine(_read_as_hex(171, CLIENT_RANDOM_SIZE),
                         _read_as_hex(171, MASTER_KEY_SIZE))>>],
     [kind |-> "pipe", data |-> <<>>],
     [kind |-> "denied", data |-> <<>>]}

Init ==
    /\ mem \in TargetMemories
    /\ fs \in [Paths -> InitFiles]
    /\ keylog_filename = DefaultPath
    /\ _keylog_file = None
    /\ _locations = [name \in Symbols |-> None]
    /\ keylogs = <<>>
    /\ breakpoints = {}
    /\ breakpoint_count = 0
    /\ frames = EmptyBag
    /\ inferior \in {"none", "stopped"}
    /\ raised = ""
    /\ printed = <<>>
    /\ info = None

Next ==
    \/ enable
    \/ disable
    \/ \E f \in {None} \cup {<<p>> : p \in Paths}, cont \in BOOLEAN : start(f, cont)
    \/ stop
    \/ \E sym \in Symbols, s \in Handles : TargetCall(sym, s)
    \/ \E fr \in BagToSet(frames) : TargetReturn(fr)
    \/ TargetRun
    \/ TargetContinue
    \/ TargetInterrupt

Spec == Init /\ [][Next]_vars

(***************************************************************************)
(* The specification of get_keylog_line alone: it is applied to the SSL    *)
(* objects of an arbitrary target memory.                                  *)
(***************************************************************************)
InitExtract ==
    /\ mem \in [Handles -> SslStates]
    /\ fs = [p \in Paths |-> [kind |-> "regular", data |-> <<>>]]
    /\ keylog_filename = DefaultPath
    /\ _keylog_file = None
    /\ _locations = [name \in Symbols |-> None]
    /\ keylogs = <<>>
    /\ breakpoints = {}
    /\ breakpoint_count = 0
    /\ frames = EmptyBag
    /\ inferior = "stopped"
    /\ raised = ""
    /\ printed = <<>>
    /\ info = None

Extract(ssl_ptr) ==
    /\ info' = get_keylog_line(mem[ssl_ptr])
    /\ UNCHANGED <<mem, fs, toolVars, frames, inferior, raised, printed>>

NextExtract == \E ssl_ptr \in Handles : Extract(ssl_ptr)

SpecExtract == InitExtract /\ [][NextExtract]_vars

(***************************************************************************)
(* Properties.                                                             *)
(***************************************************************************)
\* the log file
LogData == fs[DefaultPath].data

\* the client randoms and master keys the target's memory can hold, as logged
AllCR == {_read_as_hex(b, CLIENT_RANDOM_SIZE) : b \in ByteVals}

AllMK == {_read_as_hex(b, MASTER_KEY_SIZE) : b \in ByteVals}

\* the key lines of every client random, with any of the master keys
KeyLinesOf == [cr \in AllCR |-> {KeyLine(cr, mk) : mk \in AllMK}]

\* the positions of the key lines of client random cr
LinesFor(data, cr) == {i \in DOMAIN data : data[i] \in KeyLinesOf[cr]}

AllUnwatched == \A name \in Symbols : _locations[name] = None

AllWatched == \A name \in Symbols : _locations[name] # None

Armed(fr) == fr.fbp # None

\* the key material of the SSL object s, None when there is none to report
Material(s) == get_keylog_line(mem[s])

\* C1: for one Keylog instance no client_random is written more than once:
\* a step appends at most one key line for a client random, the line is
\* appended by an instance that had not recorded that client random and
\* records it in the same step, and an instance never forgets a fingerprint.
C1_FingerprintLoggedOnce ==
    [][/\ \A cr \in AllCR :
            LET before == Cardinality(LinesFor(LogData, cr))
                after  == Cardinality(LinesFor(LogData', cr))
            IN  /\ after \in {before, before + 1}
                /\ after = before + 1 =>
                      \E k \in DOMAIN keylogs' :
                         /\ cr \in keylogs'[k].written_items
                         /\ k \in DOMAIN keylogs => cr \notin keylogs[k].written_items
       /\ \A k \in DOMAIN keylogs :
            /\ k \in DOMAIN keylogs'
            /\ keylogs[k].written_items \subseteq keylogs'[k].written_items]_vars

\* C1 witness: sslB's key line is in the log, and the return watcher of sslA,
\* which has the same client random and another master key, has fired last
\* and has written nothing.
C1_Witness ==
    /\ mem["sslB"] = Established(171, 12)
    /\ info = <<_read_as_hex(171, CLIENT_RANDOM_SIZE), _read_as_hex(171, MASTER_KEY_SIZE)>>
    /\ raised = ""
    /\ LogData = <<_SSL_KEYLOG_HEADER,
                   KeyLine(_read_as_hex(171, CLIENT_RANDOM_SIZE),
                           _read_as_hex(12, MASTER_KEY_SIZE))>>
    /\ _keylog_file # None
    /\ keylogs[1].written_items = {_read_as_hex(171, CLIENT_RANDOM_SIZE)}

\* C2: when the call that was entered with connection s returns and its
\* return watcher fires, the key material extracted is that of s, and a line
\* the watcher appends to the log is the key line of s.
C2_ReturnReadsOwnHandle ==
    [][\A fr \in BagToSet(frames) :
          (TargetReturn(fr) /\ Armed(fr)) =>
             /\ info' = Material(fr.s)
             /\ LogData' # LogData =>
                   /\ Material(fr.s) # None
                   /\ LogData' = Append(LogData,
                                        KeyLine(Material(fr.s)[1], Material(fr.s)[2]))]_vars

\* C2 witness: the call of sslA is in flight with its return watcher armed,
\* and the return watcher of sslB has fired and logged sslB's material, not
\* sslA's.
C2_Witness ==
    /\ mem["sslB"] = Established(12, 12)
    /\ BagIn(Frame("sslA", <<SKLFinishBreakpoint("sslA", Ref(1))>>), frames)
    /\ info = <<_read_as_hex(12, CLIENT_RANDOM_SIZE), _read_as_hex(12, MASTER_KEY_SIZE)>>
    /\ LogData = <<_SSL_KEYLOG_HEADER,
                   KeyLine(_read_as_hex(12, CLIENT_RANDOM_SIZE),
                           _read_as_hex(12, MASTER_KEY_SIZE))>>

\* C3 (as claimed): stop() with a Keylog open runs to completion: every entry
\* watcher is uninstalled, the file handle is closed, the shared reference is
\* cleared and no exception leaves the call.
C3_StopCompletes ==
    [][(stop /\ _keylog_file # None) =>
          /\ raised' = ""
          /\ _keylog_file' = None
          /\ \A name \in Symbols : _locations'[name] = None
          /\ breakpoints' = {}
          /\ keylogs'[_keylog_file[1]].keylog_file.closed]_vars

\* C4: disable() leaves no symbol in the watch set and no entry watcher
\* registered, and while no symbol is watched a call of the target into any
\* of the symbols arms no return watcher and changes neither the log nor
\* the Keylog.
C4_DisabledHitsIgnored ==
    [][/\ disable => (\A name \in Symbols : _locations'[name] = None) /\ breakpoints' = {}
       /\ AllUnwatched =>
            /\ \A fr \in BagToSet(frames') :
                  Armed(fr) => CopiesIn(fr, frames') <= CopiesIn(fr, frames)
            /\ \A sym \in Symbols, s \in Handles :
                  TargetCall(sym, s) =>
                     /\ frames' = frames (+) SetToBag({Frame(s, None)})
                     /\ UNCHANGED <<fs, keylogs, info>>]_vars

\* C4 witness: watchers were installed and removed again, the target runs
\* and a call without a return watcher is in flight.
C4_Witness ==
    /\ AllUnwatched
    /\ breakpoint_count > 0
    /\ _keylog_file # None
    /\ inferior = "running"
    /\ \E s \in Handles : BagIn(Frame(s, None), frames)

\* C5: every symbol has at most one entry watcher registered, and a step
\* that leaves a symbol watched, such as an enable() or start() called while
\* it is watched, leaves its watcher as it is: the same breakpoint object is
\* still registered under the symbol and no other one is.
C5_OneWatcherPerSymbol ==
    [][\A name \in Symbols :
          /\ Cardinality({b \in breakpoints' : b.spec = name}) <= 1
          /\ (_locations[name] # None /\ _locations'[name] # None) =>
                /\ _locations'[name] = _locations[name]
                /\ {b \in breakpoints' : b.spec = name}
                      = {b \in breakpoints : b.spec = name}]_vars

\* C5 witness: enable() was called with every symbol watched: it reported
\* the watchers as already active and the five breakpoints of the first
\* round are the ones registered.
C5_Witness ==
    /\ AllWatched
    /\ Len(printed) = Cardinality(Symbols)
    /\ \A i \in DOMAIN printed :
          printed[i].fmt = "Breakpoint for %s is already active, ignoring"
    /\ breakpoint_count = Cardinality(Symbols)
    /\ Cardinality(breakpoints) = Cardinality(Symbols)

\* a string n times
RECURSIVE Repeat(_, _)
Repeat(str, n) == IF n = 0 THEN "" ELSE str \o Repeat(str, n - 1)

\* the two hexadecimal digits of the bytes of the model, written out
HexPair(b) == IF b = 171 THEN "AB" ELSE "0C"

\* C6: get_keylog_line returns None when the session pointer is null, or
\* master_key_length is <= 0, or the s3 pointer is null; otherwise it returns
\* the pair of the 32 bytes of s3.client_random and the 48 bytes of
\* session.master_key, each as two uppercase hexadecimal digits per byte.
C6_ExtractionGating ==
    [][\A ssl_ptr \in Handles :
          Extract(ssl_ptr) =>
             LET ssl == mem[ssl_ptr]
             IN  IF ssl.session = 0 \/ ssl.master_key_length <= 0 \/ ssl.s3 = 0
                 THEN info' = None
                 ELSE info' = <<Repeat(HexPair(ssl.client_random), 32),
                                Repeat(HexPair(ssl.master_key), 48)>>]_vars

\* C6 witness: an extraction from an SSL object with a session, a positive
\* key length and an s3 has returned its client random and master key.
C6_Witness ==
    /\ info = <<Repeat("AB", 32), Repeat("0C", 48)>>
    /\ \E ssl_ptr \in Handles :
          /\ mem[ssl_ptr].session # 0 /\ mem[ssl_ptr].master_key_length > 0
          /\ mem[ssl_ptr].s3 # 0
          /\ mem[ssl_ptr].client_random = 171 /\ mem[ssl_ptr].master_key = 12

\* the positions of the header in a file
HeaderPositions(data) == {i \in DOMAIN data : data[i] = _SSL_KEYLOG_HEADER}

\* a step in which enable() has created the Keylog
KeylogCreated == _keylog_file = None /\ _keylog_file' # None

\* C7: the log holds the header at most once and only as its first line; a
\* Keylog.create writes the header when the file is a seekable file that is
\* empty at open time and writes nothing otherwise (a file with content, a
\* pipe whose position cannot be probed); no other step writes a header.
C7_HeaderOnce ==
    [][/\ HeaderPositions(LogData') \subseteq {1}
       /\ KeylogCreated =>
            IF fs[DefaultPath].kind = "regular" /\ LogData = <<>>
            THEN LogData' = <<_SSL_KEYLOG_HEADER>>
            ELSE LogData' = LogData
       /\ HeaderPositions(LogData') # HeaderPositions(LogData) =>
            KeylogCreated /\ fs[DefaultPath].kind = "regular" /\ LogData = <<>>]_vars

\* C7 witness: a Keylog has been created on the log an earlier session left
\* (header and one key line) and the file is as it was.
C7_Witness ==
    /\ _keylog_file # None
    /\ keylogs[1].written_items = {}
    /\ Len(LogData) = 2
    /\ LogData[1] = _SSL_KEYLOG_HEADER

\* C8: a notify with a client random the Keylog has not recorded appends
\* the key line of that client random at the end of the file and records it,
\* a notify with a recorded one leaves the file alone, and no step removes or
\* reorders lines: the key lines are in the order of the first notify of each
\* client random.
C8_LinesInCallOrder ==
    [][/\ Len(LogData') >= Len(LogData)
       /\ SubSeq(LogData', 1, Len(LogData)) = LogData
       /\ \A fr \in BagToSet(frames) :
            (TargetReturn(fr) /\ Armed(fr) /\ raised' = "" /\ Material(fr.s) # None) =>
               LET m == Material(fr.s)
                   k == fr.fbp[1].key_listener[1]
               IN  IF m[1] \notin keylogs[k].written_items
                   THEN /\ LogData' = Append(LogData, KeyLine(m[1], m[2]))
                        /\ keylogs'[k].written_items
                              = keylogs[k].written_items \cup {m[1]}
                   ELSE LogData' = LogData]_vars

\* C8 witness: sslB's material and then sslA's, with different client
\* randoms, were notified to a Keylog on a new file: two key lines, in that
\* order.
C8_Witness ==
    /\ _keylog_file # None
    /\ Cardinality(keylogs[1].written_items) = 2
    /\ info = <<Repeat("AB", 32), Repeat("AB", 48)>>
    /\ LogData = <<_SSL_KEYLOG_HEADER,
                   KeyLine(Repeat("0C", 32), Repeat("0C", 48)),
                   KeyLine(Repeat("AB", 32), Repeat("AB", 48))>>

C10_RestartFreshKeylog ==
    [][\A f \in {None} \cup {<<p>> : p \in Paths}, cont \in BOOLEAN :
          (raised = "TypeError" /\ start(f, cont) /\ raised' = "") =>
             keylogs'[_keylog_file'[1]].written_items = {}]_vars

\* C11: stop() called while no Keylog is open prints 'No active keylog
\* session', raises nothing and changes nothing: the watch set, the
\* registered entry watchers, the Keylog reference, the Keylog objects, the
\* log file, the calls in flight and the state of the target are as before.
C11_StopWithoutKeylog ==
    [][(_keylog_file = None /\ stop) =>
          /\ printed' = <<Line("No active keylog session", "")>>
          /\ raised' = ""
          /\ UNCHANGED <<_locations, breakpoints, breakpoint_count, _keylog_file,
                         keylogs, fs, keylog_filename, frames, inferior>>]_vars

\* C11 witness: stop() has reported that there is no session, on a path
\* whose log an earlier session left, and the log is as that session left it.
C11_Witness ==
    /\ printed = <<Line("No active keylog session", "")>>
    /\ raised = ""
    /\ _keylog_file = None
    /\ Len(LogData) = 2

\* C12: when the log path cannot be opened, an enable() or start() that has
\* to create the Keylog ends with the error of open: no Keylog is created or
\* referenced, no entry watcher is installed for any symbol, the file system
\* is as before and the target is not resumed.
C12_OpenFailureStartsNothing ==
    [][(/\ _keylog_file = None
        /\ fs[keylog_filename'].kind = "denied"
        /\ \/ enable
           \/ \E f \in {None} \cup {<<p>> : p \in Paths}, cont \in BOOLEAN :
                 start(f, cont)) =>
          /\ raised' = "OSError"
          /\ _keylog_file' = None
          /\ keylogs' = keylogs
          /\ \A name \in Symbols : _locations'[name] = None
          /\ breakpoints' = {}
          /\ breakpoint_count' = breakpoint_count
          /\ fs' = fs
          /\ inferior' = inferior]_vars

\* C12 witness: gdb has control of a stopped target, a command has ended with
\* the error of open, and there is neither a Keylog nor an entry watcher.
C12_Witness ==
    /\ raised = "OSError"
    /\ fs[keylog_filename].kind = "denied"
    /\ inferior = "stopped"
    /\ _keylog_file = None
    /\ keylogs = <<>>
    /\ AllUnwatched
    /\ breakpoints = {}

\* the client randoms and the master keys of the model as they have to be
\* logged: 64 and 96 uppercase hexadecimal characters
Hex64 == {x \in {Repeat(HexPair(b), 32) : b \in ByteVals} : Len(x) = 64}

Hex96 == {x \in {Repeat(HexPair(b), 48) : b \in ByteVals} : Len(x) = 96}

\* C13: every line of the log is the header or a key line: 'CLIENT_RANDOM ',
\* the 32 bytes of a client random as 64 uppercase hexadecimal characters, one
\* space, the 48 bytes of a master key as 96 uppercase hexadecimal characters
\* and a newline, with two characters for every byte and nothing between them.
C13_KeyLineFormat ==
    \A i \in DOMAIN LogData :
       \/ LogData[i] = _SSL_KEYLOG_HEADER
       \/ \E cr \in Hex64, mk \in Hex96 :
             LogData[i] = "CLIENT_RANDOM " \o cr \o " " \o mk \o "\n"

\* C13 witness: the Keylog has been notified of a connection whose client
\* random is 32 bytes 0x0C and whose master key is 48 bytes 0xAB, and the
\* line it appended is the last of the log.
C13_Witness ==
    /\ _keylog_file # None
    /\ Repeat("0C", 32) \in keylogs[1].written_items
    /\ info = <<Repeat("0C", 32), Repeat("AB", 48)>>
    /\ LogData # <<>>
    /\ LogData[Len(LogData)] = "CLIENT_RANDOM " \o Repeat("0C", 32) \o " "
                                   \o Repeat("AB", 48) \o "\n"

\* the number of return watchers that are armed
ArmedCount(bag) ==
    BagCardinality([fr \in {f \in BagToSet(bag) : Armed(f)} |-> bag[fr]])

\* C14: a return watcher is one-shot.  The step in which it fires takes it
\* away (one armed watcher fewer, and one copy fewer of this one), appends at
\* most one line and records at most one fingerprint; a step that extracts
\* key material, appends a key line or changes a Keylog's fingerprints is the
\* firing of an armed return watcher and uses it up; and the armed watchers
\* grow only by one at a time, at a call of the running target into a symbol
\* while an entry watcher is registered.  So extractions and notifications
\* never outnumber the entry hits.
C14_ReturnWatcherOneShot ==
    [][/\ \A fr \in BagToSet(frames) :
            (TargetReturn(fr) /\ Armed(fr)) =>
               /\ CopiesIn(fr, frames') = CopiesIn(fr, frames) - 1
               /\ ArmedCount(frames') = ArmedCount(frames) - 1
               /\ Len(LogData') <= Len(LogData) + 1
               /\ \A k \in DOMAIN keylogs :
                     Cardinality(keylogs'[k].written_items)
                        <= Cardinality(keylogs[k].written_items) + 1
       /\ (\/ info' # info
           \/ _keylog_file # None /\ LogData' # LogData
           \/ \E k \in DOMAIN keylogs : keylogs'[k] # keylogs[k]) =>
             ArmedCount(frames') = ArmedCount(frames) - 1
       /\ ArmedCount(frames') > ArmedCount(frames) =>
             /\ ArmedCount(frames') = ArmedCount(frames) + 1
             /\ BagCardinality(frames') = BagCardinality(frames) + 1
             /\ inferior = "running"
             /\ breakpoints # {}]_vars

\* C14 witness: return watchers have fired, the last one has extracted key
\* material, none is armed any more and the target runs on with the entry
\* watchers in place.
C14_Witness ==
    /\ info # None
    /\ frames = EmptyBag
    /\ AllWatched
    /\ inferior = "running"
    /\ raised = ""

\* C15: an entry watcher is durable.  Every call of the running target into
\* a watched symbol adds one frame whose return watcher is armed with the
\* SSL* of that call and the key listener of the entry watcher, so the armed
\* watchers grow by exactly one, and the watch set and the registered entry
\* watchers are as before: the next call into the symbol is a hit again.
C15_EntryWatcherDurable ==
    [][\A sym \in Symbols, s \in Handles :
          (inferior = "running" /\ _locations[sym] # None /\ TargetCall(sym, s)) =>
             /\ \E b \in breakpoints :
                   /\ b.spec = sym
                   /\ _locations[sym] = Ref(b.number)
                   /\ frames' = frames (+) SetToBag(
                         {Frame(s, <<SKLFinishBreakpoint(s, b.key_listener)>>)})
             /\ ArmedCount(frames') = ArmedCount(frames) + 1
             /\ UNCHANGED <<_locations, breakpoints, breakpoint_count>>]_vars

\* C15 witness: two calls with the same connection are in flight, each with
\* its own armed return watcher, and every symbol is still watched.
C15_Witness ==
    /\ CopiesIn(Frame("sslA", <<SKLFinishBreakpoint("sslA", Ref(1))>>), frames) = 2
    /\ AllWatched
    /\ Cardinality(breakpoints) = Cardinality(Symbols)
    /\ inferior = "running"

\* C16 (as claimed): neither watcher leaves the target stopped: after the
\* entry watcher of a call and after the return watcher of a return the
\* target runs, whatever the extraction yielded.
C16_NeverLeavesStopped ==
    [][/\ \A sym \in Symbols, s \in Handles : TargetCall(sym, s) => inferior' = "running"
       /\ \A fr \in BagToSet(frames) : TargetReturn(fr) => inferior' = "running"]_vars

\* C16 (amended): the entry watcher always lets the target continue.  The
\* return watcher lets it continue when the extraction yields nothing and
\* when the client random is already recorded; when there is key material to
\* write, it lets the target continue if the write succeeds, and if the write
\* raises, the exception leaves the callback, nothing is logged or recorded
\* and gdb keeps the target stopped.
C16_ContinuesUnlessWriteFails ==
    [][/\ \A sym \in Symbols, s \in Handles :
            TargetCall(sym, s) => inferior' = "running"
       /\ \A fr \in BagToSet(frames) :
            (TargetReturn(fr) /\ Armed(fr)) =>
               LET m == Material(fr.s)
                   k == fr.fbp[1].key_listener[1]
               IN  IF m = None \/ m[1] \in keylogs[k].written_items
                   THEN /\ inferior' = "running"
                        /\ raised' = ""
                        /\ UNCHANGED <<fs, keylogs>>
                   ELSE \/ /\ inferior' = "running"
                           /\ raised' = ""
                           /\ LogData' = Append(LogData, KeyLine(m[1], m[2]))
                        \/ /\ inferior' = "stopped"
                           /\ raised' = "IOError"
                           /\ UNCHANGED <<fs, keylogs>>
       /\ \A fr \in BagToSet(frames) :
            (TargetReturn(fr) /\ ~Armed(fr)) => inferior' = "running"]_vars

\* C16 witness: the target runs after a return watcher has extracted and
\* logged the key material of a connection as the second key line, with the
\* call of another connection still in flight.
C16_Witness ==
    /\ inferior = "running"
    /\ raised = ""
    /\ info # None
    /\ Len(LogData) = 3
    /\ LogData[3] = KeyLine(info[1], info[2])
    /\ ArmedCount(frames) = 1

\* C17: disable() changes the watch set and the registered entry watchers
\* and nothing else: the calls in flight keep their armed return watchers,
\* and the Keylog reference, the Keylog objects (file handle, fingerprints)
\* and the log file are as before.  A return watcher that fires while no
\* symbol is watched still extracts the key material of its connection and,
\* when the client random is not recorded and the write succeeds, appends
\* the key line and records the fingerprint.
C17_DisableKeepsReturnWatchers ==
    [][/\ disable =>
            /\ UNCHANGED <<frames, _keylog_file, keylogs, fs, keylog_filename,
                           breakpoint_count, inferior, info>>
            /\ \A name \in Symbols : _locations'[name] = None
       /\ \A fr \in BagToSet(frames) :
            (AllUnwatched /\ TargetReturn(fr) /\ Armed(fr)) =>
               LET m == Material(fr.s)
                   k == fr.fbp[1].key_listener[1]
               IN  /\ info' = m
                   /\ (m # None /\ m[1] \notin keylogs[k].written_items /\ raised' = "") =>
                         /\ LogData' = Append(LogData, KeyLine(m[1], m[2]))
                         /\ keylogs'[k].written_items
                               = keylogs[k].written_items \cup {m[1]}]_vars

\* C17 witness: disable() has just deleted the five entry watchers while two
\* calls were in flight, and their return watchers are still armed.
C17_Witness ==
    /\ AllUnwatched
    /\ breakpoints = {}
    /\ raised = ""
    /\ Len(printed) = Cardinality(Symbols)
    /\ \A i \in DOMAIN printed : printed[i].fmt = "Deleting breakpoint %d (%s)"
    /\ ArmedCount(frames) = 2
    /\ _keylog_file # None

\* C18: notify writes the line first and records the fingerprint after it.
\* When a return watcher notifies a client random that is not recorded, either
\* the line is appended and the fingerprint recorded, or the write raises and
\* both the file and the fingerprints are as before, so that the next notify
\* of this client random is again in the first case; and a fingerprint is
\* recorded only in a step that appends its key line as the last of the file.
C18_WriteThenRecord ==
    [][/\ \A fr \in BagToSet(frames) :
            (TargetReturn(fr) /\ Armed(fr) /\ Material(fr.s) # None) =>
               LET m == Material(fr.s)
                   k == fr.fbp[1].key_listener[1]
               IN  m[1] \notin keylogs[k].written_items =>
                      \/ /\ raised' = ""
                         /\ LogData' = Append(LogData, KeyLine(m[1], m[2]))
                         /\ keylogs'[k].written_items
                               = keylogs[k].written_items \cup {m[1]}
                      \/ /\ raised' = "IOError"
                         /\ LogData' = LogData
                         /\ keylogs' = keylogs
       /\ \A k \in DOMAIN keylogs, cr \in AllCR :
            (cr \in keylogs'[k].written_items /\ cr \notin keylogs[k].written_items) =>
               /\ Len(LogData') = Len(LogData) + 1
               /\ Len(LogData') \in LinesFor(LogData', cr)]_vars

\* C18 witness: the write of the first key line has raised: the exception
\* has left the return watcher, the log holds its header alone and the
\* Keylog has recorded nothing, with key material extracted.
C18_Witness ==
    /\ raised = "IOError"
    /\ inferior = "stopped"
    /\ info # None
    /\ _keylog_file # None
    /\ keylogs[1].written_items = {}
    /\ LogData = <<_SSL_KEYLOG_HEADER>>

\* C19: in every reachable state, if a symbol has an entry watcher then a
\* Keylog is referenced by _keylog_file and its file is open, every watched
\* symbol's breakpoint is registered, and the key listener of every
\* registered entry watcher is that Keylog.
C19_WatchersBoundToCurrentKeylog ==
    (\E name \in Symbols : _locations[name] # None) =>
       /\ _keylog_file # None
       /\ _keylog_file[1] \in DOMAIN keylogs
       /\ ~keylogs[_keylog_file[1]].keylog_file.closed
       /\ \A b \in breakpoints : b.key_listener = _keylog_file
       /\ \A name \in Symbols :
             _locations[name] # None =>
                \E b \in breakpoints : b.spec = name /\ _locations[name] = Ref(b.number)

\* C19 witness: the entry watchers of the first round were removed and the
\* symbols are watched again, by entry watchers of a second round whose key
\* listener is the Keylog that _keylog_file references.
C19_Witness ==
    /\ AllWatched
    /\ breakpoint_count = 2 * Cardinality(Symbols)
    /\ _keylog_file = Ref(1)
    /\ \A b \in breakpoints : b.key_listener = Ref(1) /\ b.number > Cardinality(Symbols)
    /\ Len(printed) = 0
    /\ raised = ""
    /\ inferior = "running"

\* C20: the client random alone is the key of the deduplication, so the
\* first master key notified for a client random wins.  Once a Keylog has
\* recorded a client random, no step adds, removes or changes a key line of
\* that client random; and a return watcher whose connection has a recorded
\* client random, with the same or another master key, leaves the file and
\* the Keylog as they are and raises nothing.
C20_FirstMasterKeyWins ==
    [][/\ \A cr \in AllCR :
            (\E k \in DOMAIN keylogs : cr \in keylogs[k].written_items) =>
               /\ LinesFor(LogData', cr) = LinesFor(LogData, cr)
               /\ \A i \in LinesFor(LogData, cr) : LogData'[i] = LogData[i]
       /\ \A fr \in BagToSet(frames) :
            (/\ Armed(fr)
             /\ Material(fr.s) # None
             /\ Material(fr.s)[1] \in keylogs[fr.fbp[1].key_listener[1]].written_items
             /\ TargetReturn(fr)) =>
               /\ UNCHANGED <<fs, keylogs>>
               /\ raised' = ""]_vars

\* C20 witness: the Keylog wrote the line of sslA on a new file; then the
\* return watcher of sslB, which has the same client random and another
\* master key, fired and wrote nothing: the one key line holds the first
\* master key.
C20_Witness ==
    /\ mem["sslB"] = Established(171, 12)
    /\ info = <<Repeat("AB", 32), Repeat("0C", 48)>>
    /\ raised = ""
    /\ _keylog_file # None
    /\ keylogs[1].written_items = {Repeat("AB", 32)}
    /\ LogData = <<_SSL_KEYLOG_HEADER, KeyLine(Repeat("AB", 32), Repeat("AB", 48))>>

====
